---- MODULE Spec2Model ----
(***************************************************************************)
(* Model of the x-draw-backend synchronisation core                        *)
(* (src/src/webSocketServer/WebSocketServer.ts): the Redis store shared by *)
(* all server processes, each process's connection registry, handler table *)
(* and promise-chained job queue, the asynchronous handlers (one step per  *)
(* awaited Redis command), the broadcast engine and the pub/sub bridge.    *)
(***************************************************************************)
EXTENDS Integers, Sequences, FiniteSets, TLC

\* ---------------------------------------------------------------- bounds
\* Element ids are 1..MaxId.
MaxId == 2
\* Inbound frames accepted over a whole run.
MaxMsgs == 2
\* Connections accepted over a whole run.
MaxConns == 2
\* Connections closed over a whole run.
MaxCloses == 1

\* ------------------------------------------------------------ documents
ElemIds == 1..MaxId
Urls == {"", "u1", "u2"}
\* An Element of types.ts reduced to the fields the server reads (id, type,
\* url) and one field v standing for the rest of its content.  url = ""
\* stands for an absent (falsy) url.
Elements ==
    [id : ElemIds, type : {"rect"}, url : {""}, v : {0, 1}]
      \cup [id : ElemIds, type : {"image"}, url : Urls, v : {0, 1}]

NoDoc == [none |-> TRUE]

Views == {[scale |-> 1, panOffset |-> <<0, 0>>], [scale |-> 2, panOffset |-> <<5, 7>>]}

MkDoc(els, view) ==
    [elements |-> els, scale |-> view.scale, panOffset |-> view.panOffset]

Ids(els) == {els[i].id : i \in DOMAIN els}

Distinct(els) == \A i, j \in DOMAIN els : els[i].id = els[j].id => i = j

RECURSIVE SeqsOver(_, _)
SeqsOver(S, n) ==
    IF n = 0 THEN {<<>>}
    ELSE LET shorter == SeqsOver(S, n - 1)
         IN shorter \cup {Append(s, x) : s \in {t \in shorter : Len(t) = n - 1}, x \in S}

RECURSIVE FilterSeq(_, _)
FilterSeq(s, keep) ==
    IF s = <<>> THEN <<>>
    ELSE IF Head(s).id \in keep
         THEN <<Head(s)>> \o FilterSeq(Tail(s), keep)
         ELSE FilterSeq(Tail(s), keep)

\* updateBoardState's map callback for a stored element ele whose id is the
\* new element's: the new element, with the stored url kept when the new
\* element is an image and the stored one has a url.
C5mut_Replacement(ele, element) == [element EXCEPT !.v = ele.v]

C6mut_Replacement(ele, element) == element

Replacement(ele, element) ==
    IF element.type = "image" /\ ele.url # ""
    THEN [element EXCEPT !.url = ele.url]
    ELSE element

\* updateBoardState, from the parsed document to the document written back.
UpsertDoc(boardState, element) ==
    LET els == boardState.elements
        elementExists == \E i \in DOMAIN els : els[i].id = element.id
        updatedElements ==
            [i \in DOMAIN els |->
                IF els[i].id = element.id THEN Replacement(els[i], element) ELSE els[i]]
    IN [boardState EXCEPT !.elements =
            IF elementExists THEN updatedElements ELSE Append(updatedElements, element)]

C7mut_EraseDoc(boardState, eraseIds) == boardState

\* eraseElements, from the parsed document to the document written back;
\* eraseIds are the ids of the elements of the request.
EraseDoc(boardState, eraseIds) ==
    [boardState EXCEPT !.elements =
        FilterSeq(boardState.elements, Ids(boardState.elements) \ eraseIds)]


\* --------------------------------------------------------------- system
Procs == {1, 2}
Users == {"A", "B"}
Rooms == {"r1"}

\* Outbound message types produced by broadCastRoom.
BroadcastTypes ==
    {"add-participant", "remove-participant", "participant-position", "draw-element",
     "move-element", "resize-element", "update-element", "erase-elements", "add-images"}

\* Inbound types whose handler is broadCastRoom followed by one updateBoardState.
UpsertTypes == {"drawing-element", "element-moves", "element-resize", "element-update"}

\* The broadcast type each inbound type produces.
OutType(type) ==
    CASE type = "drawing-element" -> "draw-element"
      [] type = "element-moves" -> "move-element"
      [] type = "element-resize" -> "resize-element"
      [] type = "element-update" -> "update-element"
      [] type = "elements-erase" -> "erase-elements"
      [] type = "images-added" -> "add-images"
      [] OTHER -> ""

\* Elements carried by the frames the model's clients send.
Img1 == [id |-> 1, type |-> "image", url |-> "u1", v |-> 0]
Img1NoUrl == [id |-> 1, type |-> "image", url |-> "", v |-> 1]
Rect2 == [id |-> 2, type |-> "rect", url |-> "", v |-> 0]
\* Documents posted to /start-session, and the process that serves it.
InitDocs == {MkDoc(<<>>, [scale |-> 1, panOffset |-> <<0, 0>>]),
             MkDoc(<<Img1NoUrl>>, [scale |-> 2, panOffset |-> <<5, 7>>])}
HttpProcs == {1}

\* An inbound frame {type, payload}: payload.element(s) as els, the ids of
\* an erase request's elements as ids.  payload.roomId is chosen on receipt.
InFrame(type, els, ids) == [form |-> "ok", type |-> type, els |-> els, ids |-> ids]
\* Raw data that is not such a frame: text that is not JSON ("notjson"), JSON
\* without a type ("notype"), JSON with a type and no payload key ("nopayload").
RawFrame(form, type) == [form |-> form, type |-> type, els |-> <<>>, ids |-> {}]
UnknownF == InFrame("unknown", <<>>, {})
JoinF == InFrame("join-room", <<>>, {})
LeaveF == InFrame("leave-room", <<>>, {})
MouseF == InFrame("mouse-position", <<>>, {})
CustomF == InFrame("custom", <<>>, {})

\* What the clients and the infrastructure do in one run: the frames clients
\* send, the faults that occur (a Redis command that never completes, a
\* handler registered through on() that rejects, the status key expiring),
\* whether clients send before they have received userRegistered, and
\* whether a user id opens a second socket on a process it is connected to.
Environment(frames, faults, eager, again) ==
    [frames |-> frames, faults |-> faults, eager |-> eager, again |-> again, solo |-> FALSE,
     msgs |-> MaxMsgs]
\* The same with a single client connecting.
Solo(e) == [e EXCEPT !.solo = TRUE]
\* The same with one more frame sent.
Long(e) == [e EXCEPT !.msgs = MaxMsgs + 1]
Envs ==
    {Environment({JoinF, LeaveF}, {}, FALSE, FALSE),
     Long(Environment({JoinF, MouseF}, {}, FALSE, FALSE)),
     Environment({JoinF, InFrame("drawing-element", <<Img1>>, {})}, {}, FALSE, FALSE),
     Environment({InFrame("drawing-element", <<Rect2>>, {}),
                  InFrame("element-update", <<Img1NoUrl>>, {}),
                  InFrame("element-moves", <<Img1>>, {})}, {}, FALSE, FALSE),
     Environment({InFrame("element-resize", <<Rect2>>, {}),
                  InFrame("elements-erase", <<>>, {1})}, {}, FALSE, FALSE),
     Environment({InFrame("images-added", <<Img1, Rect2>>, {}),
                  InFrame("elements-erase", <<>>, {1, 2})}, {}, FALSE, FALSE),
     Environment({JoinF, CustomF}, {"reject"}, FALSE, FALSE),
     Environment({JoinF, MouseF}, {"stall"}, FALSE, FALSE),
     Environment({JoinF, InFrame("element-moves", <<Rect2>>, {})}, {"expire"}, FALSE, FALSE),
     Environment({JoinF}, {}, TRUE, FALSE),
     Environment({JoinF}, {}, FALSE, TRUE),
     Solo(Environment({JoinF, LeaveF}, {"close"}, FALSE, FALSE)),
     Solo(Environment({JoinF}, {"close", "error"}, FALSE, FALSE)),
     Environment({JoinF, UnknownF, RawFrame("notjson", ""), RawFrame("notype", ""),
                  RawFrame("nopayload", "join-room")}, {}, FALSE, FALSE),
     Environment({InFrame("drawing-element", <<Rect2>>, {})}, {"reinit"}, FALSE, FALSE),
     Environment({}, {"close"}, FALSE, TRUE)}

VARIABLES
    env,        \* the run's environment, fixed from the start
    status,     \* Redis user:<u>:status is "1"
    members,    \* Redis room:<r>:members (an empty set is an absent key)
    details,    \* users u for which Redis room:<r>:user:<u> exists
    board,      \* Redis whiteboard:<r>:data, parsed, or NoDoc
    boardTTL,   \* whiteboard:<r>:data carries an expiry
    sessions,   \* room ids minted by /start-session
    conns,      \* every WebSocket accepted so far, by connection id
    clients,    \* CLIENTS of each process: user -> connection id, 0 absent
    handlers,   \* handlers of each process: user -> registrations per type, -1 absent
    custom,     \* users with a handler registered through on() by the embedding code
    queue,      \* jobs chained on jobQueue whose callback has not run
    poisoned,   \* jobQueue is a rejected promise
    tasks,      \* async functions in progress, each at its pending Redis command
    bus,        \* envelopes published on message-channel, per subscriber
    delivered,  \* frames written to sockets
    sendlog,    \* outcome of every send
    skipped,    \* accepted frames whose job callback will never run
    nmsgs,      \* frames accepted so far
    upserted,   \* per room, ids upserted by a completed updateBoardState and not erased since
    dropped,    \* frames the message handler returned on without chaining a job
    pre,        \* room-function specification: members and details before the join
    doc,        \* document-function specification: the document
    lastOp,     \* the operation applied last, with the document it was applied to
    sticky      \* per id, the url the stored element must still carry

sysvars == <<env, status, members, details, board, boardTTL, sessions, conns, clients,
             handlers, custom, queue, poisoned, tasks, bus, delivered, sendlog,
             skipped, nmsgs, upserted, dropped, pre>>
docvars == <<doc, lastOp, sticky>>
vars == <<sysvars, docvars>>

NoOp == [kind |-> "none", el |-> Rect2, ids |-> {}, before |-> NoDoc]

InitSys ==
    /\ status = [u \in Users |-> FALSE]
    /\ members = [r \in Rooms |-> {}]
    /\ details = [r \in Rooms |-> {}]
    /\ board = [r \in Rooms |-> NoDoc]
    /\ boardTTL = [r \in Rooms |-> FALSE]
    /\ sessions = {}
    /\ conns = <<>>
    /\ clients = [p \in Procs |-> [u \in Users |-> 0]]
    /\ handlers = [p \in Procs |-> [u \in Users |-> -1]]
    /\ custom = [p \in Procs |-> {}]
    /\ queue = [p \in Procs |-> <<>>]
    /\ poisoned = [p \in Procs |-> FALSE]
    /\ tasks = {}
    /\ bus = {}
    /\ delivered = {}
    /\ sendlog = {}
    /\ skipped = 0
    /\ nmsgs = 0
    /\ upserted = [r \in Rooms |-> {}]
    /\ dropped = {}

NoPre == [members |-> {}, details |-> {}]

InitDocIdle ==
    /\ doc = NoDoc
    /\ lastOp = NoOp
    /\ sticky = [e \in ElemIds |-> ""]

Init == env \in Envs /\ InitSys /\ InitDocIdle /\ pre = NoPre

\* An async function in progress.  pc names the Redis command it awaits.
Task(kind, p, u, c, m, chain, pc, r) ==
    [kind |-> kind, proc |-> p, user |-> u, conn |-> c, msg |-> m, chain |-> chain,
     copy |-> 1, pc |-> pc, room |-> r, els |-> <<>>, ids |-> {}, btype |-> "",
     mem |-> {}, todo |-> {}, to |-> "", ws |-> 0, snap |-> NoDoc, after |-> "done",
     stalled |-> FALSE, was |-> {}, found |-> {}]

\* send(userId, type, payload) up to its first await: the handle is read
\* from CLIENTS before the status key is fetched.
SendTask(p, u, c, m, r, type, doc0) ==
    [Task("send", p, u, c, m, FALSE, "snd_get", r) EXCEPT
        !.btype = type, !.to = u, !.ws = clients[p][u], !.snap = doc0]

\* broadCastRoom({userId, type, payload}) called without await.
BcastTask(p, u, c, m, r, type) ==
    [Task("bcast", p, u, c, m, FALSE, "bc_exists", r) EXCEPT !.btype = type]

\* The handler registered by initWs for a job's type, up to its first await.
HandlerTask(p, job) ==
    LET base == Task(job.type, p, job.user, job.conn, job.msg, TRUE, "", job.room)
    IN CASE job.type = "join-room" -> [base EXCEPT !.pc = "j_set"]
         [] job.type = "leave-room" -> [base EXCEPT !.pc = "l_srem"]
         [] job.type = "mouse-position" -> [base EXCEPT !.pc = "m_get"]
         [] job.type \in UpsertTypes \cup {"images-added"} ->
                [base EXCEPT !.pc = "bc_exists", !.btype = OutType(job.type),
                             !.els = job.els, !.after = "up_get"]
         [] job.type = "elements-erase" ->
                [base EXCEPT !.pc = "bc_exists", !.btype = OutType(job.type),
                             !.ids = job.ids, !.after = "er_get"]
         [] OTHER -> [base EXCEPT !.pc = "c_run"]

\* Promise.all(typeHandlers.map(handler => handler({userId, payload}))).
\* typeHandlers is the array read when the frame arrived: it holds the
\* handlers it held then, and those initWs has pushed onto it since.
HandlerTasks(p, job) ==
    LET n == IF job.type = "custom" THEN 1
             ELSE IF handlers[p][job.user] > job.n THEN handlers[p][job.user] ELSE job.n
    IN {[HandlerTask(p, job) EXCEPT !.copy = k] : k \in 1..n}

ChainBusy(ts, p) == \E x \in ts : x.chain /\ x.proc = p

\* Task t has taken a step and is replaced by the tasks repl.  When the last
\* handler of the running job has resolved, the callback chained next runs.
Step(t, repl) ==
    LET ts == (tasks \ {t}) \cup repl
        p == t.proc
        start == ~ChainBusy(ts, p) /\ queue[p] # <<>>
    IN /\ tasks' = IF start THEN ts \cup HandlerTasks(p, Head(queue[p])) ELSE ts
       /\ queue' = [queue EXCEPT ![p] = IF start THEN Tail(@) ELSE @]

Ready(t) == t \in tasks /\ ~t.stalled


\* ----------------------------------------------------------- connection
\* wss.on("connection"): registerUser up to its first await, then initWs.
Connect(p, u) ==
    /\ Len(conns) < (IF env.solo THEN 1 ELSE MaxConns)
    /\ conns = <<>> => p = 1 /\ u = "A"
    /\ env.again \/ clients[p][u] = 0
    /\ LET c == Len(conns) + 1
       IN /\ conns' = Append(conns, [proc |-> p, user |-> u, open |-> TRUE, registered |-> FALSE])
          /\ clients' = [clients EXCEPT ![p][u] = c]
          /\ tasks' = tasks \cup {Task("reg", p, u, c, 0, FALSE, "reg_set", "")}
    /\ handlers' = [handlers EXCEPT ![p][u] = IF @ = -1 THEN 1 ELSE @ + 1]
    /\ UNCHANGED <<env, status, members, details, board, boardTTL, sessions, custom, queue,
                   poisoned, bus, delivered, sendlog, skipped, nmsgs, upserted, dropped, pre, docvars>>

\* registerUser after redis.set(USER_STATUS, "1", "EX", 7200).
RegSet(t) ==
    /\ Ready(t) /\ t.pc = "reg_set"
    /\ status' = [status EXCEPT ![t.user] = TRUE]
    /\ handlers' = [handlers EXCEPT ![t.proc][t.user] = IF @ = -1 THEN 0 ELSE @]
    /\ conns' = [conns EXCEPT ![t.conn].registered = TRUE]
    /\ Step(t, {SendTask(t.proc, t.user, t.conn, 0, "", "userRegistered", NoDoc)})
    /\ UNCHANGED <<env, members, details, board, boardTTL, sessions, clients, custom, poisoned,
                   bus, delivered, sendlog, skipped, nmsgs, upserted, dropped, pre, docvars>>

\* The 2-hour expiry of user:<u>:status elapses.
ExpireStatus(u) ==
    /\ "expire" \in env.faults
    /\ status[u]
    /\ status' = [status EXCEPT ![u] = FALSE]
    /\ UNCHANGED <<env, members, details, board, boardTTL, sessions, conns, clients, handlers,
                   custom, queue, poisoned, tasks, bus, delivered, sendlog, skipped,
                   nmsgs, upserted, dropped, pre, docvars>>

\* on(type, handler, userId) called by the embedding code with a handler of its own.
On(p, u) ==
    /\ "reject" \in env.faults
    /\ handlers[p][u] >= 1 /\ u \notin custom[p]
    /\ custom' = [custom EXCEPT ![p] = @ \cup {u}]
    /\ UNCHANGED <<env, status, members, details, board, boardTTL, sessions, conns, clients,
                   handlers, queue, poisoned, tasks, bus, delivered, sendlog, skipped,
                   nmsgs, upserted, dropped, pre, docvars>>

\* ------------------------------------------------------------- dispatch
\* ws.on("message") for a well-formed frame whose type has handlers:
\* nextJob = this.jobQueue.then(callback); this.jobQueue = nextJob.
Accept(c, job) ==
    LET p == conns[c].proc
    IN /\ nmsgs' = nmsgs + 1
       /\ IF poisoned[p]
          THEN /\ skipped' = skipped + 1
               /\ UNCHANGED <<tasks, queue>>
          ELSE /\ UNCHANGED skipped
               /\ IF ~ChainBusy(tasks, p) /\ queue[p] = <<>>
                  THEN /\ tasks' = tasks \cup HandlerTasks(p, job)
                       /\ UNCHANGED queue
                  ELSE /\ queue' = [queue EXCEPT ![p] = Append(@, job)]
                       /\ UNCHANGED tasks
       /\ UNCHANGED <<env, status, members, details, board, boardTTL, sessions, conns, clients,
                      handlers, custom, poisoned, bus, delivered, sendlog, upserted, dropped, pre, docvars>>

Job(c, f, r) ==
    [type |-> f.type, user |-> conns[c].user, conn |-> c, msg |-> nmsgs + 1, room |-> r,
     els |-> f.els, ids |-> f.ids, n |-> handlers[conns[c].proc][conns[c].user]]

\* The client of connection c has been told that it is registered.
Greeted(c) == \E d \in delivered : d.conn = c /\ d.type = "userRegistered"

\* The inbound types initWs registers a handler for.
InitTypes ==
    UpsertTypes \cup {"join-room", "leave-room", "mouse-position", "elements-erase",
                      "images-added"}

\* this.handlers.get(userId)?.get(type) is a non-empty list.
HasHandlers(p, u, type) ==
    CASE type = "custom" -> handlers[p][u] # -1 /\ u \in custom[p]
      [] type \in InitTypes -> handlers[p][u] >= 1
      [] OTHER -> FALSE

\* JSON.parse(rawData.toString()) does not throw.
Parses(f) == f.form # "notjson"

C16mut_WellFormed(f) == TRUE

\* The frame parses, has a type and has a payload key.
WellFormed(f) == Parses(f) /\ f.form \notin {"notype", "nopayload"}

\* The message handler chains a job for the frame.
Dispatchable(p, u, f) == WellFormed(f) /\ HasHandlers(p, u, f.type)

\* ws.on("message") returning before it chains a job: the frame is logged.
Drop(c, f) ==
    /\ nmsgs' = nmsgs + 1
    /\ dropped' = dropped \cup {[conn |-> c, msg |-> nmsgs + 1, form |-> f.form, type |-> f.type]}
    /\ UNCHANGED <<env, status, members, details, board, boardTTL, sessions, conns, clients,
                   handlers, custom, queue, poisoned, tasks, bus, delivered, sendlog,
                   skipped, upserted, pre, docvars>>

\* ws.on("message").
Receive(c, f, r) ==
    /\ c \in DOMAIN conns /\ conns[c].open
    /\ nmsgs < env.msgs
    /\ f \in env.frames
    /\ env.eager \/ Greeted(c)
    /\ IF Dispatchable(conns[c].proc, conns[c].user, f)
       THEN Accept(c, Job(c, f, IF f.type = "custom" THEN "" ELSE r))
       ELSE Drop(c, f)

\* A handler registered through on() resolves.
CustomResolve(t) ==
    /\ Ready(t) /\ t.pc = "c_run"
    /\ Step(t, {})
    /\ UNCHANGED <<env, status, members, details, board, boardTTL, sessions, conns, clients,
                   handlers, custom, poisoned, bus, delivered, sendlog, skipped, nmsgs,
                   upserted, dropped, pre, docvars>>

\* A handler registered through on() throws or rejects: nextJob rejects, and
\* so does every promise chained on it with then(callback) alone.
CustomReject(t) ==
    /\ Ready(t) /\ t.pc = "c_run"
    /\ poisoned' = [poisoned EXCEPT ![t.proc] = TRUE]
    /\ skipped' = skipped + Len(queue[t.proc])
    /\ queue' = [queue EXCEPT ![t.proc] = <<>>]
    /\ tasks' = tasks \ {t}
    /\ UNCHANGED <<env, status, members, details, board, boardTTL, sessions, conns, clients,
                   handlers, custom, bus, delivered, sendlog, nmsgs, upserted, dropped, pre, docvars>>

\* The Redis command a running handler awaits never completes.
Stall(t) ==
    /\ "stall" \in env.faults
    /\ t \in tasks /\ t.chain
    /\ \A x \in tasks : ~x.stalled
    /\ tasks' = (tasks \ {t}) \cup {[t EXCEPT !.stalled = TRUE]}
    /\ UNCHANGED <<env, status, members, details, board, boardTTL, sessions, conns, clients,
                   handlers, custom, queue, poisoned, bus, delivered, sendlog, skipped,
                   nmsgs, upserted, dropped, pre, docvars>>


\* ------------------------------------------------------ broadcast engine
C8mut_Recipients(mem, sender) == mem

\* broadCastRoom's loop: every member except the sender.
Recipients(mem, sender) == mem \ {sender}

\* What a task does once its broadCastRoom has returned.
AfterBcast(t) ==
    IF t.after = "done" THEN {}
    ELSE {[t EXCEPT !.pc = t.after, !.to = "", !.ws = 0, !.todo = {}]}

\* broadCastRoom after roomExists (redis.exists on the member set).
BcExists(t) ==
    /\ Ready(t) /\ t.pc = "bc_exists"
    /\ IF members[t.room] # {}
       THEN Step(t, {[t EXCEPT !.pc = "bc_members"]})
       ELSE Step(t, AfterBcast(t))
    /\ UNCHANGED <<env, status, members, details, board, boardTTL, sessions, conns, clients,
                   handlers, custom, poisoned, bus, delivered, sendlog, skipped, nmsgs,
                   upserted, dropped, pre, docvars>>

\* broadCastRoom after redis.smembers: the loop starts its first send, which
\* reads CLIENTS before awaiting the status key.
BcMembers(t) ==
    /\ Ready(t) /\ t.pc = "bc_members"
    /\ LET mem == members[t.room]
           rest == Recipients(mem, t.user)
       IN IF rest = {}
          THEN Step(t, AfterBcast([t EXCEPT !.mem = mem]))
          ELSE \E m \in rest :
                  Step(t, {[t EXCEPT !.mem = mem, !.todo = rest \ {m}, !.to = m,
                                     !.ws = clients[t.proc][m], !.pc = "snd_get"]})
    /\ UNCHANGED <<env, status, members, details, board, boardTTL, sessions, conns, clients,
                   handlers, custom, poisoned, bus, delivered, sendlog, skipped, nmsgs,
                   upserted, dropped, pre, docvars>>

Frame(t, c, via) ==
    [conn |-> c, type |-> t.btype, room |-> t.room, sender |-> t.user, mem |-> t.mem,
     els |-> t.els, doc |-> t.snap, via |-> via, msg |-> t.msg]

Envelope(t, q) ==
    [proc |-> q, to |-> t.to, type |-> t.btype, room |-> t.room, sender |-> t.user,
     mem |-> t.mem, els |-> t.els, doc |-> t.snap, msg |-> t.msg]

\* The user has a registered open connection on another process and no entry
\* in this process's CLIENTS.
RemoteOnly(p, u) ==
    /\ clients[p][u] = 0
    /\ \E c \in DOMAIN conns :
          /\ conns[c].user = u /\ conns[c].proc # p
          /\ conns[c].open /\ conns[c].registered
          /\ clients[conns[c].proc][u] = c

\* send's test of the status key.
Online(u) == status[u]

\* send after redis.get(USER_STATUS): skip, write to the socket, or publish.
SendGet(t) ==
    /\ Ready(t) /\ t.pc = "snd_get"
    /\ LET local == t.ws # 0 /\ conns[t.ws].open
           outcome == IF ~Online(t.to) THEN "offline"
                      ELSE IF local THEN "local" ELSE "publish"
       IN /\ delivered' = IF outcome = "local"
                          THEN delivered \cup {Frame(t, t.ws, "local")}
                          ELSE delivered
          /\ bus' = IF outcome = "publish"
                    THEN bus \cup {Envelope(t, q) : q \in Procs}
                    ELSE bus
          /\ sendlog' = sendlog \cup
                {[proc |-> t.proc, to |-> t.to, type |-> t.btype, sender |-> t.user,
                  outcome |-> outcome, remote |-> RemoteOnly(t.proc, t.to)]}
    /\ IF t.todo = {}
       THEN Step(t, AfterBcast(t))
       ELSE \E m \in t.todo :
               Step(t, {[t EXCEPT !.todo = @ \ {m}, !.to = m, !.ws = clients[t.proc][m]]})
    /\ UNCHANGED <<env, status, members, details, board, boardTTL, sessions, conns, clients,
                   handlers, custom, poisoned, skipped, nmsgs, upserted, dropped, pre, docvars>>

\* redisSubscriber.on("message") of process e.proc.
BusDeliver(e) ==
    /\ e \in bus
    /\ bus' = bus \ {e}
    /\ LET recpWs == clients[e.proc][e.to]
       IN delivered' =
            IF recpWs # 0 /\ conns[recpWs].open
            THEN delivered \cup
                   {[conn |-> recpWs, type |-> e.type, room |-> e.room, sender |-> e.sender,
                     mem |-> e.mem, els |-> e.els, doc |-> e.doc, via |-> "bus", msg |-> e.msg]}
            ELSE delivered
    /\ UNCHANGED <<env, status, members, details, board, boardTTL, sessions, conns, clients,
                   handlers, custom, queue, poisoned, tasks, sendlog, skipped, nmsgs,
                   upserted, dropped, pre, docvars>>

\* ---------------------------------------------------------------- close
\* ws.on("close") up to its first await, redis.keys in findUserRooms.  The
\* handler is not chained on jobQueue.
Close(c) ==
    /\ "close" \in env.faults
    /\ c \in DOMAIN conns /\ conns[c].open
    /\ Cardinality({x \in DOMAIN conns : ~conns[x].open}) < MaxCloses
    /\ conns' = [conns EXCEPT ![c].open = FALSE]
    /\ tasks' = tasks \cup {Task("close", conns[c].proc, conns[c].user, c, 0, FALSE, "x_keys", "")}
    /\ UNCHANGED <<env, status, members, details, board, boardTTL, sessions, clients, handlers,
                   custom, queue, poisoned, bus, delivered, sendlog, skipped, nmsgs,
                   upserted, dropped, pre, docvars>>

\* ws.on("error"): the registry entry and the handler table are deleted.
SockError(c) ==
    /\ "error" \in env.faults
    /\ c \in DOMAIN conns /\ conns[c].open
    /\ LET p == conns[c].proc
           u == conns[c].user
       IN /\ clients[p][u] # 0 \/ handlers[p][u] # -1
          /\ clients' = [clients EXCEPT ![p][u] = 0]
          /\ handlers' = [handlers EXCEPT ![p][u] = -1]
          /\ custom' = [custom EXCEPT ![p] = @ \ {u}]
    /\ UNCHANGED <<env, status, members, details, board, boardTTL, sessions, conns, queue,
                   poisoned, tasks, bus, delivered, sendlog, skipped, nmsgs, upserted,
                   dropped, pre, docvars>>

\* The close handler's loop over userRooms: handleUserLeaveRoom for the next
\* room, or, after the last, CLIENTS.delete and handlers.delete followed by
\* redis.del(USER_STATUS).
CloseLoop(t) ==
    IF t.found = {}
    THEN {[t EXCEPT !.pc = "x_del", !.room = ""]}
    ELSE LET r == CHOOSE x \in t.found : TRUE
         IN {[t EXCEPT !.pc = "l_srem", !.room = r, !.found = @ \ {r}]}

\* findUserRooms' loop over the keys listed: sismember for the next key, or
\* return userRooms.
FindLoop(t) ==
    IF t.todo = {}
    THEN CloseLoop(t)
    ELSE LET r == CHOOSE x \in t.todo : TRUE
         IN {[t EXCEPT !.pc = "x_sis", !.room = r, !.todo = @ \ {r}]}

\* What follows handleUserLeaveRoom: nothing in leaveRoom, the loop in the
\* close handler.
AfterLeave(t) == IF t.kind = "close" THEN CloseLoop(t) ELSE {}

\* Task t goes on as succ; when the close handler has reached its release,
\* the user's registry entry and handler table are deleted in the same turn.
Proceed(t, succ) ==
    /\ Step(t, succ)
    /\ IF \E x \in succ : x.kind = "close" /\ x.pc = "x_del"
       THEN /\ clients' = [clients EXCEPT ![t.proc][t.user] = 0]
            /\ handlers' = [handlers EXCEPT ![t.proc][t.user] = -1]
            /\ custom' = [custom EXCEPT ![t.proc] = @ \ {t.user}]
       ELSE UNCHANGED <<clients, handlers, custom>>

\* findUserRooms after redis.keys("room:*:members").
CloseKeys(t) ==
    /\ Ready(t) /\ t.pc = "x_keys"
    /\ Proceed(t, FindLoop([t EXCEPT !.todo = {r \in Rooms : members[r] # {}}]))
    /\ UNCHANGED <<env, status, members, details, board, boardTTL, sessions, conns, poisoned,
                   bus, delivered, sendlog, skipped, nmsgs, upserted, dropped, pre, docvars>>

\* findUserRooms after redis.sismember(key, userId).
CloseSIsMember(t) ==
    /\ Ready(t) /\ t.pc = "x_sis"
    /\ Proceed(t, FindLoop(IF t.user \in members[t.room]
                           THEN [t EXCEPT !.found = @ \cup {t.room}]
                           ELSE t))
    /\ UNCHANGED <<env, status, members, details, board, boardTTL, sessions, conns, poisoned,
                   bus, delivered, sendlog, skipped, nmsgs, upserted, dropped, pre, docvars>>

\* The close handler after redis.del(USER_STATUS).
CloseDel(t) ==
    /\ Ready(t) /\ t.pc = "x_del"
    /\ status' = [status EXCEPT ![t.user] = FALSE]
    /\ Step(t, {})
    /\ UNCHANGED <<env, members, details, board, boardTTL, sessions, conns, clients, handlers,
                   custom, poisoned, bus, delivered, sendlog, skipped, nmsgs, upserted,
                   dropped, pre, docvars>>


\* -------------------------------------------------------- room handlers
\* joinRoom after redis.set(ROOM_USER_DETAILS).
JoinSetDetails(t) ==
    /\ Ready(t) /\ t.pc = "j_set"
    /\ details' = [details EXCEPT ![t.room] = @ \cup {t.user}]
    /\ Step(t, {[t EXCEPT !.pc = "j_sadd"]})
    /\ UNCHANGED <<env, status, members, board, boardTTL, sessions, conns, clients, handlers,
                   custom, poisoned, bus, delivered, sendlog, skipped, nmsgs, upserted,
                   dropped, pre, docvars>>

\* joinRoom after redis.sadd(ROOM_MEMBERS).
JoinSAdd(t) ==
    /\ Ready(t) /\ t.pc = "j_sadd"
    /\ members' = [members EXCEPT ![t.room] = @ \cup {t.user}]
    /\ Step(t, {[t EXCEPT !.pc = "j_get"]})
    /\ UNCHANGED <<env, status, details, board, boardTTL, sessions, conns, clients, handlers,
                   custom, poisoned, bus, delivered, sendlog, skipped, nmsgs, upserted,
                   dropped, pre, docvars>>

\* joinRoom once the board state was found: send and broadCastRoom are
\* called without await, and the handler returns.
JoinFound(t) ==
    {SendTask(t.proc, t.user, t.conn, t.msg, t.room, "room-joined", board[t.room]),
     BcastTask(t.proc, t.user, t.conn, t.msg, t.room, "add-participant")}

\* joinRoom after redis.get(WHITEBOARD_DATA).
JoinGetBoard(t) ==
    /\ Ready(t) /\ t.pc = "j_get"
    /\ IF board[t.room] = NoDoc THEN Step(t, {}) ELSE Step(t, JoinFound(t))
    /\ UNCHANGED <<env, status, members, details, board, boardTTL, sessions, conns, clients,
                   handlers, custom, poisoned, bus, delivered, sendlog, skipped, nmsgs,
                   upserted, dropped, pre, docvars>>

C12mut_SRem(set, u) == set

\* redis.srem(key, u) on the set stored at key.
SRem(set, u) == set \ {u}

\* handleUserLeaveRoom after redis.srem(ROOM_MEMBERS); was keeps the member
\* set the command found.
LeaveSRem(t) ==
    /\ Ready(t) /\ t.pc = "l_srem"
    /\ members' = [members EXCEPT ![t.room] = SRem(@, t.user)]
    /\ Step(t, {[t EXCEPT !.pc = "l_del", !.was = members[t.room]]})
    /\ UNCHANGED <<env, status, details, board, boardTTL, sessions, conns, clients, handlers,
                   custom, poisoned, bus, delivered, sendlog, skipped, nmsgs, upserted,
                   dropped, pre, docvars>>

\* handleUserLeaveRoom after redis.del(ROOM_USER_DETAILS): broadCastRoom is
\* called without await, then scard is issued.
LeaveDel(t) ==
    /\ Ready(t) /\ t.pc = "l_del"
    /\ details' = [details EXCEPT ![t.room] = @ \ {t.user}]
    /\ Step(t, {[t EXCEPT !.pc = "l_scard"],
                BcastTask(t.proc, t.user, t.conn, t.msg, t.room, "remove-participant")})
    /\ UNCHANGED <<env, status, members, board, boardTTL, sessions, conns, clients, handlers,
                   custom, poisoned, bus, delivered, sendlog, skipped, nmsgs, upserted,
                   dropped, pre, docvars>>

C11mut_RoomEmpty(membersCount) == FALSE

\* handleUserLeaveRoom's test of the count scard returned.
RoomEmpty(membersCount) == membersCount = 0

\* handleUserLeaveRoom after redis.scard(ROOM_MEMBERS).
LeaveSCard(t) ==
    /\ Ready(t) /\ t.pc = "l_scard"
    /\ IF RoomEmpty(Cardinality(members[t.room]))
       THEN Proceed(t, {[t EXCEPT !.pc = "cl_keys"]})
       ELSE Proceed(t, AfterLeave(t))
    /\ UNCHANGED <<env, status, members, details, board, boardTTL, sessions, conns, poisoned,
                   bus, delivered, sendlog, skipped, nmsgs, upserted, dropped, pre, docvars>>

\* cleanupEmptyRoom after redis.keys("room:<r>:*"); mem holds the users whose
\* detail keys were listed.
CleanupKeys(t) ==
    /\ Ready(t) /\ t.pc = "cl_keys"
    /\ Step(t, {[t EXCEPT !.pc = "cl_exec", !.mem = details[t.room]]})
    /\ UNCHANGED <<env, status, members, details, board, boardTTL, sessions, conns, clients,
                   handlers, custom, poisoned, bus, delivered, sendlog, skipped, nmsgs,
                   upserted, dropped, pre, docvars>>

\* cleanupEmptyRoom after pipeline.exec().
CleanupExec(t) ==
    /\ Ready(t) /\ t.pc = "cl_exec"
    /\ members' = [members EXCEPT ![t.room] = {}]
    /\ board' = [board EXCEPT ![t.room] = NoDoc]
    /\ boardTTL' = [boardTTL EXCEPT ![t.room] = FALSE]
    /\ details' = [details EXCEPT ![t.room] = @ \ t.mem]
    /\ upserted' = [upserted EXCEPT ![t.room] = {}]
    /\ Proceed(t, AfterLeave(t))
    /\ UNCHANGED <<env, status, sessions, conns, poisoned, bus, delivered, sendlog, skipped,
                   nmsgs, dropped, pre, docvars>>

C22mut_HasDetails(dets, u) == TRUE

\* handleMousePosition's test of the presence entry it read.
HasDetails(dets, u) == u \in dets

\* handleMousePosition after redis.get(ROOM_USER_DETAILS).
MouseGet(t) ==
    /\ Ready(t) /\ t.pc = "m_get"
    /\ IF HasDetails(details[t.room], t.user)
       THEN Step(t, {BcastTask(t.proc, t.user, t.conn, t.msg, t.room, "participant-position")})
       ELSE Step(t, {})
    /\ UNCHANGED <<env, status, members, details, board, boardTTL, sessions, conns, clients,
                   handlers, custom, poisoned, bus, delivered, sendlog, skipped, nmsgs,
                   upserted, dropped, pre, docvars>>


\* ---------------------------------------------------- board state store
\* The element handlers' loop over their elements: images-added goes on to
\* its next element, the others are done.
NextElement(t) ==
    IF Len(t.els) > 1
    THEN {[t EXCEPT !.els = Tail(@), !.pc = "up_get", !.snap = NoDoc]}
    ELSE {}

\* updateBoardState after redis.get(WHITEBOARD_DATA).
UpsertGet(t) ==
    /\ Ready(t) /\ t.pc = "up_get"
    /\ IF board[t.room] = NoDoc
       THEN Step(t, NextElement(t))
       ELSE Step(t, {[t EXCEPT !.pc = "up_set", !.snap = board[t.room]]})
    /\ UNCHANGED <<env, status, members, details, board, boardTTL, sessions, conns, clients,
                   handlers, custom, poisoned, bus, delivered, sendlog, skipped, nmsgs,
                   upserted, dropped, pre, docvars>>

\* updateBoardState after redis.set(WHITEBOARD_DATA, ...): the whole document
\* computed from the one read is written, with no expiry.
UpsertSet(t) ==
    /\ Ready(t) /\ t.pc = "up_set"
    /\ board' = [board EXCEPT ![t.room] = UpsertDoc(t.snap, Head(t.els))]
    /\ boardTTL' = [boardTTL EXCEPT ![t.room] = FALSE]
    /\ upserted' = [upserted EXCEPT ![t.room] = @ \cup {Head(t.els).id}]
    /\ Step(t, NextElement(t))
    /\ UNCHANGED <<env, status, members, details, sessions, conns, clients, handlers, custom,
                   poisoned, bus, delivered, sendlog, skipped, nmsgs, dropped, pre, docvars>>

\* eraseElements after redis.get(WHITEBOARD_DATA).
EraseGet(t) ==
    /\ Ready(t) /\ t.pc = "er_get"
    /\ IF board[t.room] = NoDoc
       THEN Step(t, {})
       ELSE Step(t, {[t EXCEPT !.pc = "er_set", !.snap = board[t.room]]})
    /\ UNCHANGED <<env, status, members, details, board, boardTTL, sessions, conns, clients,
                   handlers, custom, poisoned, bus, delivered, sendlog, skipped, nmsgs,
                   upserted, dropped, pre, docvars>>

\* eraseElements after redis.set(WHITEBOARD_DATA, ...).
EraseSet(t) ==
    /\ Ready(t) /\ t.pc = "er_set"
    /\ board' = [board EXCEPT ![t.room] = EraseDoc(t.snap, t.ids)]
    /\ boardTTL' = [boardTTL EXCEPT ![t.room] = FALSE]
    /\ upserted' = [upserted EXCEPT ![t.room] = @ \ t.ids]
    /\ Step(t, {})
    /\ UNCHANGED <<env, status, members, details, sessions, conns, clients, handlers, custom,
                   poisoned, bus, delivered, sendlog, skipped, nmsgs, dropped, pre, docvars>>

\* POST /start-session on process p: createRoom mints a fresh room id and
\* initialiseWhiteboard is called with the posted document.
StartSession(p, r, d) ==
    /\ r \notin sessions
    /\ sessions' = sessions \cup {r}
    /\ tasks' = tasks \cup {[Task("init", p, "", 0, 0, FALSE, "iw_exists", r) EXCEPT !.snap = d]}
    /\ UNCHANGED <<env, status, members, details, board, boardTTL, conns, clients, handlers,
                   custom, queue, poisoned, bus, delivered, sendlog, skipped, nmsgs,
                   upserted, dropped, pre, docvars>>

\* initialiseWhiteboard(roomId, details) called by the embedding code for a
\* room id in use.
Reinitialise(p, r, d) ==
    /\ "reinit" \in env.faults
    /\ r \in sessions
    /\ tasks' = tasks \cup {[Task("init", p, "", 0, 0, FALSE, "iw_exists", r) EXCEPT !.snap = d]}
    /\ UNCHANGED <<env, status, members, details, board, boardTTL, sessions, conns, clients,
                   handlers, custom, queue, poisoned, bus, delivered, sendlog, skipped,
                   nmsgs, upserted, dropped, pre, docvars>>

\* initialiseWhiteboard after redis.exists(WHITEBOARD_DATA).
InitExists(t) ==
    /\ Ready(t) /\ t.pc = "iw_exists"
    /\ IF board[t.room] # NoDoc
       THEN Step(t, {})
       ELSE Step(t, {[t EXCEPT !.pc = "iw_set"]})
    /\ UNCHANGED <<env, status, members, details, board, boardTTL, sessions, conns, clients,
                   handlers, custom, poisoned, bus, delivered, sendlog, skipped, nmsgs,
                   upserted, dropped, pre, docvars>>

\* initialiseWhiteboard after redis.set(WHITEBOARD_DATA, ..., "EX", 86400).
InitSet(t) ==
    /\ Ready(t) /\ t.pc = "iw_set"
    /\ board' = [board EXCEPT ![t.room] = t.snap]
    /\ boardTTL' = [boardTTL EXCEPT ![t.room] = TRUE]
    /\ upserted' = [upserted EXCEPT ![t.room] = {}]
    /\ Step(t, {})
    /\ UNCHANGED <<env, status, members, details, sessions, conns, clients, handlers, custom,
                   poisoned, bus, delivered, sendlog, skipped, nmsgs, dropped, pre, docvars>>

\* ------------------------------------------------------------ behaviour
Next ==
    \/ \E p \in Procs, u \in Users : Connect(p, u)
    \/ \E t \in tasks : RegSet(t)
    \/ \E u \in Users : ExpireStatus(u)
    \/ \E p \in Procs, u \in Users : On(p, u)
    \/ \E c \in DOMAIN conns, f \in env.frames, r \in Rooms : Receive(c, f, r)
    \/ \E t \in tasks : CustomResolve(t)
    \/ \E t \in tasks : CustomReject(t)
    \/ \E t \in tasks : Stall(t)
    \/ \E t \in tasks : BcExists(t)
    \/ \E t \in tasks : BcMembers(t)
    \/ \E t \in tasks : SendGet(t)
    \/ \E e \in bus : BusDeliver(e)
    \/ \E t \in tasks : JoinSetDetails(t)
    \/ \E t \in tasks : JoinSAdd(t)
    \/ \E t \in tasks : JoinGetBoard(t)
    \/ \E t \in tasks : LeaveSRem(t)
    \/ \E t \in tasks : LeaveDel(t)
    \/ \E t \in tasks : LeaveSCard(t)
    \/ \E t \in tasks : CleanupKeys(t)
    \/ \E t \in tasks : CleanupExec(t)
    \/ \E t \in tasks : MouseGet(t)
    \/ \E t \in tasks : UpsertGet(t)
    \/ \E t \in tasks : UpsertSet(t)
    \/ \E t \in tasks : EraseGet(t)
    \/ \E t \in tasks : EraseSet(t)
    \/ \E p \in HttpProcs, r \in Rooms, d \in InitDocs : StartSession(p, r, d)
    \/ \E t \in tasks : InitExists(t)
    \/ \E t \in tasks : InitSet(t)
    \/ \E c \in DOMAIN conns : Close(c)
    \/ \E c \in DOMAIN conns : SockError(c)
    \/ \E t \in tasks : CloseKeys(t)
    \/ \E t \in tasks : CloseSIsMember(t)
    \/ \E t \in tasks : CloseDel(t)
    \/ \E p \in HttpProcs, r \in Rooms, d \in InitDocs : Reinitialise(p, r, d)

Spec == Init /\ [][Next]_vars


\* ------------------------------------------- the document functions alone
\* updateBoardState and eraseElements applied one after the other to a
\* document, each to the document the previous one wrote.
BoardDocs ==
    {MkDoc(els, view) : els \in {x \in SeqsOver(Elements, MaxId) : Distinct(x)}, view \in Views}

UrlOf(d, e) ==
    IF \E i \in DOMAIN d.elements : d.elements[i].id = e
    THEN (CHOOSE x \in {d.elements[i] : i \in DOMAIN d.elements} : x.id = e).url
    ELSE ""

InitBoard ==
    /\ env = Environment({}, {}, FALSE, FALSE)
    /\ InitSys /\ pre = NoPre
    /\ doc \in BoardDocs
    /\ lastOp = NoOp
    /\ sticky = [e \in ElemIds |-> UrlOf(doc, e)]

\* sticky[e] is kept across an upsert of an image element with id e that
\* omits its url, and is otherwise the url stored for e after the operation.
ApplyUpsert(el) ==
    /\ doc' = UpsertDoc(doc, el)
    /\ lastOp' = [kind |-> "upsert", el |-> el, ids |-> {}, before |-> doc]
    /\ sticky' = [sticky EXCEPT ![el.id] =
                    IF el.type = "image" /\ el.url = "" /\ @ # ""
                    THEN @ ELSE UrlOf(doc', el.id)]
    /\ UNCHANGED sysvars

ApplyErase(ids) ==
    /\ doc' = EraseDoc(doc, ids)
    /\ lastOp' = [kind |-> "erase", el |-> Rect2, ids |-> ids, before |-> doc]
    /\ sticky' = [e \in ElemIds |-> IF e \in ids THEN "" ELSE sticky[e]]
    /\ UNCHANGED sysvars

NextBoard ==
    \/ \E el \in Elements : ApplyUpsert(el)
    \/ \E ids \in SUBSET ElemIds : ApplyErase(ids)

SpecBoard == InitBoard /\ [][NextBoard]_vars


\* ------------------------------------------------ join then leave alone
\* A registered connection of user u on process pu has sent join-room for
\* room r and its handler runs.  Either it has sent leave-room next, whose
\* job is chained behind the first, or it closes once the join is handled.
\* The room has a board state and u is not a member; the other user v,
\* connected on process pv, is a member or not.  No other frame arrives.
Greeting(c, u) ==
    [conn |-> c, type |-> "userRegistered", room |-> "", sender |-> u, mem |-> {},
     els |-> <<>>, doc |-> NoDoc, via |-> "local", msg |-> 0]

RoomJob(type, u, m, r) ==
    [type |-> type, user |-> u, conn |-> 1, msg |-> m, room |-> r, els |-> <<>>,
     ids |-> {}, n |-> 1]

InitRoom ==
    \E u \in Users, pu \in Procs, pv \in Procs, r \in Rooms, d \in InitDocs :
      LET v == CHOOSE x \in Users : x # u
      IN \E m \in {{}, {v}}, leaves \in BOOLEAN :
        /\ env = IF leaves THEN Environment({JoinF, LeaveF}, {}, FALSE, FALSE)
                 ELSE Environment({JoinF}, {"close"}, FALSE, FALSE)
        /\ status = [x \in Users |-> TRUE]
        /\ members = [x \in Rooms |-> IF x = r THEN m ELSE {}]
        /\ details = members
        /\ board = [x \in Rooms |-> IF x = r THEN d ELSE NoDoc]
        /\ boardTTL = [x \in Rooms |-> x = r]
        /\ sessions = {r}
        /\ conns = <<[proc |-> pu, user |-> u, open |-> TRUE, registered |-> TRUE],
                     [proc |-> pv, user |-> v, open |-> TRUE, registered |-> TRUE]>>
        /\ clients = [p \in Procs |-> [x \in Users |->
                         IF p = pu /\ x = u THEN 1 ELSE IF p = pv /\ x = v THEN 2 ELSE 0]]
        /\ handlers = [p \in Procs |-> [x \in Users |->
                         IF (p = pu /\ x = u) \/ (p = pv /\ x = v) THEN 1 ELSE -1]]
        /\ custom = [p \in Procs |-> {}]
        /\ queue = [p \in Procs |->
                       IF p = pu /\ leaves THEN <<RoomJob("leave-room", u, 2, r)>> ELSE <<>>]
        /\ poisoned = [p \in Procs |-> FALSE]
        /\ tasks = HandlerTasks(pu, RoomJob("join-room", u, 1, r))
        /\ bus = {}
        /\ delivered = {Greeting(1, u), Greeting(2, v)}
        /\ sendlog = {}
        /\ skipped = 0
        /\ nmsgs = IF leaves THEN 2 ELSE 1
        /\ upserted = [x \in Rooms |-> {}]
        /\ dropped = {}
        /\ pre = [members |-> m, details |-> m]
        /\ InitDocIdle

\* The connection that joined closes, its join handled.
CloseIdle(c) == c = 1 /\ tasks = {} /\ bus = {} /\ Close(c)

NextRoom ==
    \/ \E c \in DOMAIN conns : CloseIdle(c)
    \/ \E t \in tasks : CloseKeys(t)
    \/ \E t \in tasks : CloseSIsMember(t)
    \/ \E t \in tasks : CloseDel(t)
    \/ \E t \in tasks : JoinSetDetails(t)
    \/ \E t \in tasks : JoinSAdd(t)
    \/ \E t \in tasks : JoinGetBoard(t)
    \/ \E t \in tasks : LeaveSRem(t)
    \/ \E t \in tasks : LeaveDel(t)
    \/ \E t \in tasks : LeaveSCard(t)
    \/ \E t \in tasks : CleanupKeys(t)
    \/ \E t \in tasks : CleanupExec(t)
    \/ \E t \in tasks : BcExists(t)
    \/ \E t \in tasks : BcMembers(t)
    \/ \E t \in tasks : SendGet(t)
    \/ \E e \in bus : BusDeliver(e)

SpecRoom == InitRoom /\ [][NextRoom]_vars


\* ---------------------------------------------------------------- claims
\* C1: while the handler of a frame is running, no async function started
\* by the handler of an earlier frame of the same connection is still in
\* progress (handlers of one connection never overlap, whatever their type).
C1_HandlersSerialized ==
    \A t2 \in tasks : t2.chain =>
        \A t1 \in tasks : ~(t1.conn = t2.conn /\ t1.msg # 0 /\ t1.msg < t2.msg)

\* C2: a handler stalled on a Redis command that never completes holds back
\* no job of another connection.
C2_ConnectionsIndependent ==
    \A t \in tasks : (t.chain /\ t.stalled) =>
        \A i \in DOMAIN queue[t.proc] : queue[t.proc][i].conn = t.conn

\* C3: a handler that throws or rejects does not stop the queue: no accepted
\* frame is left without its handler being invoked.
C3_RejectionDoesNotStopQueue == skipped = 0

\* C4: the stored elements have pairwise distinct ids, and an id upserted by
\* a completed updateBoardState and not erased since is stored exactly once.
C4_UpsertedStoredOnce ==
    \A r \in Rooms :
        /\ board[r] # NoDoc => Distinct(board[r].elements)
        /\ \A e \in upserted[r] :
              /\ board[r] # NoDoc
              /\ Cardinality({i \in DOMAIN board[r].elements : board[r].elements[i].id = e}) = 1

\* The frame of updateBoardState: same scale and panOffset, and either the
\* new element appended to the sequence read, or a sequence of the same
\* length and ids in which only the element with the new id differs.
UpsertFrame(before, after, el) ==
    /\ after.scale = before.scale /\ after.panOffset = before.panOffset
    /\ IF el.id \in Ids(before.elements)
       THEN /\ Len(after.elements) = Len(before.elements)
            /\ \A i \in DOMAIN before.elements :
                  /\ after.elements[i].id = before.elements[i].id
                  /\ before.elements[i].id # el.id => after.elements[i] = before.elements[i]
       ELSE after.elements = Append(before.elements, el)

\* C5, as stated: updateBoardState replaces the stored element that has the
\* new element's id by the new element, in place, or appends the new element.
C5_ReplacedByNewElement ==
    lastOp.kind = "upsert" =>
        /\ UpsertFrame(lastOp.before, doc, lastOp.el)
        /\ \A i \in DOMAIN doc.elements :
              doc.elements[i].id = lastOp.el.id => doc.elements[i] = lastOp.el

\* C5, amended: as stated, except that the element stored in place is the
\* new element carrying the url stored before, when the new element is an
\* image and the stored element had a non-empty url.
C5_ReplacedKeepingUrl ==
    lastOp.kind = "upsert" =>
        /\ UpsertFrame(lastOp.before, doc, lastOp.el)
        /\ \A i \in DOMAIN doc.elements :
              doc.elements[i].id = lastOp.el.id =>
                 LET old == UrlOf(lastOp.before, lastOp.el.id)
                 IN doc.elements[i] =
                       IF lastOp.el.type = "image" /\ old # ""
                       THEN [id |-> lastOp.el.id, type |-> "image", url |-> old, v |-> lastOp.el.v]
                       ELSE lastOp.el

\* C5's case: an image stored with a url, in a document of two elements, is
\* updated in place by an image with another url.
C5_Witness ==
    /\ lastOp.kind = "upsert" /\ lastOp.el.type = "image"
    /\ Len(lastOp.before.elements) = 2
    /\ UrlOf(lastOp.before, lastOp.el.id) \notin {"", lastOp.el.url}

\* C6: an image url, once stored, survives every later upsert of an image
\* element with the same id that omits the url, until the id is erased.
C6_UrlSticky ==
    \A e \in ElemIds : sticky[e] # "" =>
        /\ doc # NoDoc
        /\ \E i \in DOMAIN doc.elements :
              doc.elements[i].id = e /\ doc.elements[i].url = sticky[e]

\* C6's case: an image stored with a url has just been upserted without one.
C6_Witness ==
    /\ lastOp.kind = "upsert" /\ lastOp.el.type = "image" /\ lastOp.el.url = ""
    /\ UrlOf(lastOp.before, lastOp.el.id) # ""
    /\ sticky[lastOp.el.id] # ""

\* Position of the element with id e in a sequence of distinct ids.
Pos(els, e) == CHOOSE i \in DOMAIN els : els[i].id = e

\* C7: after eraseElements no stored element has an id of the request, the
\* other elements are all still stored, unchanged and in the same relative
\* order, nothing else is stored, scale and panOffset are unchanged, and a
\* request of absent ids leaves the sequence as it was.
C7_EraseRemovesExactly ==
    lastOp.kind = "erase" =>
        LET b == lastOp.before.elements
            a == doc.elements
            kept == Ids(b) \ lastOp.ids
        IN /\ Ids(a) \cap lastOp.ids = {}
           /\ Ids(a) = kept /\ Len(a) = Cardinality(kept)
           /\ \A i \in DOMAIN b : b[i].id \in kept => a[Pos(a, b[i].id)] = b[i]
           /\ \A i, j \in DOMAIN b :
                 (i < j /\ b[i].id \in kept /\ b[j].id \in kept)
                    => Pos(a, b[i].id) < Pos(a, b[j].id)
           /\ doc.scale = lastOp.before.scale /\ doc.panOffset = lastOp.before.panOffset
           /\ (Ids(b) \cap lastOp.ids = {} => a = b)

\* C7's case: one of two stored elements has been erased.
C7_Witness ==
    /\ lastOp.kind = "erase"
    /\ Len(lastOp.before.elements) = 2 /\ Len(doc.elements) = 1

\* C8: a frame of a broadcast reaches, directly or through the bus, only
\* users other than the broadcast's sender that were in the member set the
\* broadcast read, so nothing is sent for an absent member set.
C8_BroadcastRecipients ==
    /\ \A d \in delivered : d.type \in BroadcastTypes =>
          /\ conns[d.conn].user # d.sender
          /\ conns[d.conn].user \in d.mem
    /\ \A e \in bus : e.type \in BroadcastTypes => e.to # e.sender /\ e.to \in e.mem
    /\ \A x \in sendlog : x.type \in BroadcastTypes => x.to # x.sender

\* C8's case: a member received through the bus a broadcast whose sender was
\* itself in the member set the broadcast read.
C8_Witness ==
    \E d \in delivered :
        d.type \in BroadcastTypes /\ d.via = "bus" /\ d.sender \in d.mem

\* C9: a broadcast's send to a member that has a registered open connection
\* on another process, and no entry in the local registry, publishes an
\* envelope for it.
C9_RemoteMemberPublished ==
    \A x \in sendlog : (x.type \in BroadcastTypes /\ x.remote) => x.outcome = "publish"

\* The async function t of this state is no longer in progress in the next.
Returned(t) ==
    ~\E x \in tasks' : x.kind = t.kind /\ x.conn = t.conn /\ x.msg = t.msg /\ x.copy = t.copy

\* C10: when joinRoom returns having found no board state, the user is not
\* in the room's member set and has no presence entry.
C10_JoinWithoutBoardIsNoOp ==
    [][\A t \in tasks :
          (t.pc = "j_get" /\ board[t.room] = NoDoc /\ Returned(t))
             => (t.user \notin members'[t.room] /\ t.user \notin details'[t.room])]_vars

\* Both handlers of the connection that joined and left have completed.
Handled == \A p \in Procs : queue[p] = <<>> /\ ~ChainBusy(tasks, p)

\* C12: join-room then leave-room by a user that was not a member, with no
\* other operation on the room, leave the member set and the presence
\* entries of the room as they were before the join.
C12_JoinLeaveRestores ==
    (Handled /\ nmsgs = 2) => \A r \in sessions :
                  members[r] = pre.members /\ details[r] = pre.details

\* C12's case: the user joined and left a room another user is a member of.
C12_Witness == Handled /\ tasks = {} /\ pre.members # {} /\ nmsgs = 2

\* The leave handling of the connection that joined has completed: its
\* leave-room job, or the close handler of the closed connection.
LeaveHandled ==
    /\ Handled
    /\ nmsgs = 2 \/ \E c \in DOMAIN conns : ~conns[c].open
    /\ ~\E t \in tasks : t.kind = "close"

TookStep(t) == t \notin tasks' /\ [t EXCEPT !.stalled = TRUE] \notin tasks'

\* C13: no step of the leave-room handler for a room that had no member when
\* the handler began changes the room's member set, presence entries or
\* board state.
C13_LeaveEmptyRoomIsNoOp ==
    [][\A t \in tasks :
          (/\ t.kind = "leave-room" /\ TookStep(t)
           /\ IF t.pc = "l_srem" THEN members[t.room] = {} ELSE t.was = {})
             => (/\ members'[t.room] = members[t.room]
                 /\ details'[t.room] = details[t.room]
                 /\ board'[t.room] = board[t.room])]_vars

\* Connection c has closed, its close handler has completed, and so has
\* every job chained for its frames.
Reconciled(c) ==
    /\ ~conns[c].open
    /\ ~\E t \in tasks : t.conn = c
    /\ \A p \in Procs : \A i \in DOMAIN queue[p] : queue[p][i].conn # c

\* C14: a user whose only connection has closed and is reconciled is in no
\* room's member set and has no presence entry.
C14_ClosedUserInNoRoom ==
    \A c \in DOMAIN conns :
        (Reconciled(c) /\ \A x \in DOMAIN conns : conns[x].user = conns[c].user => x = c)
           => \A r \in Rooms :
                 conns[c].user \notin members[r] /\ conns[c].user \notin details[r]

\* C15: the registry entry and the handler table of a closed connection's
\* user are gone in every state that follows the close event.
C15_ReleasedOnClose ==
    \A c \in DOMAIN conns :
        ~conns[c].open =>
            /\ clients[conns[c].proc][conns[c].user] # c
            /\ handlers[conns[c].proc][conns[c].user] = -1

\* The frame is not valid JSON, has no type, has no payload key, or has a
\* type with no handler registered for the connection's user.
Invalid(c, f) ==
    f.form # "ok" \/ ~HasHandlers(conns[c].proc, conns[c].user, f.type)

\* C16: the message handler drops an invalid frame without invoking a
\* handler, chaining a job, touching the store, sending anything or closing
\* the connection; and a valid frame that arrives on a connection after a
\* dropped one has a job chained on the queue as any other.
C16_InvalidFrameDropped ==
    [][\A c \in DOMAIN conns : \A f \in env.frames :
          /\ (Invalid(c, f) /\ \E r \in Rooms : Receive(c, f, r))
                => UNCHANGED <<tasks, queue, status, members, details, board, boardTTL,
                               bus, delivered, sendlog, conns, clients, handlers, skipped>>
          /\ (/\ ~Invalid(c, f) /\ \E r \in Rooms : Receive(c, f, r)
              /\ \E x \in dropped : x.conn = c)
                => (tasks' # tasks \/ queue' # queue \/ skipped' # skipped)]_vars

\* C16's case: a handler runs for a frame that arrived on a connection after
\* a frame that was dropped.
C16_Witness ==
    \E x \in dropped : \E t \in tasks : t.conn = x.conn /\ t.chain /\ t.msg > x.msg

\* C17: initialiseWhiteboard's write never replaces a document that is
\* stored when the write is made.
C17_InitNeverOverwrites ==
    [][\A t \in tasks :
          (t.kind = "init" /\ t.pc = "iw_set" /\ TookStep(t) /\ board[t.room] # NoDoc)
             => board'[t.room] = board[t.room]]_vars

\* C18: a stored board state carries an expiry.
C18_BoardStateExpires ==
    \A r \in Rooms : board[r] # NoDoc => boardTTL[r]

\* The handler of the frame a delivered message came from has not written
\* its mutation yet: it is still broadcasting, or at the read or the write
\* of its first store operation.
Unwritten(d) ==
    \E t \in tasks :
        /\ t.chain /\ t.msg = d.msg /\ t.btype = d.type
        /\ t.pc \in {"bc_members", "snd_get", "up_get", "up_set", "er_get", "er_set"}
        /\ t.els = d.els

\* C19: a draw-element, move-element, resize-element, update-element,
\* erase-elements or add-images message is delivered only once the handler
\* that broadcasts it has written its mutation to the board state.
C19_MutationBeforeBroadcast ==
    \A d \in delivered :
        d.type \in {OutType(x) : x \in UpsertTypes \cup {"elements-erase", "images-added"}}
           => ~Unwritten(d)

\* No element handler is running or chained.
EditsHandled ==
    /\ \A p \in Procs : queue[p] = <<>>
    /\ ~\E t \in tasks : t.chain

\* C20: once the element handlers have completed, every element upserted
\* and not erased since is in the stored document.
C20_NoEditLost ==
    EditsHandled =>
        \A r \in Rooms : board[r] # NoDoc => upserted[r] \subseteq Ids(board[r].elements)

\* The types the element handlers broadcast.
ElementOutTypes == {OutType(x) : x \in UpsertTypes \cup {"elements-erase", "images-added"}}

\* C21: no step of an element handler for a room that never had a board
\* state creates a document for the room, delivers a message or publishes an
\* envelope.
C21_NoBoardNoEffect ==
    [][\A t \in tasks :
          (/\ t.chain /\ t.after \in {"up_get", "er_get"} /\ TookStep(t)
           /\ t.room \notin sessions /\ board[t.room] = NoDoc)
             => (board'[t.room] = NoDoc /\ delivered' = delivered /\ bus' = bus)]_vars

\* Task t belongs to the handling of a mouse-position frame: the handler or
\* the broadcast it started.
OfMouse(t) ==
    t.kind = "mouse-position" \/ (t.kind = "bcast" /\ t.btype = "participant-position")

\* C22: no step of the handling of mouse-position changes a board state, a
\* member set or a presence entry; the handler starts no broadcast when the
\* sender has no presence entry in the room; and participant-position goes
\* only to members of the room other than the sender.
C22_MousePositionFrame ==
    [][/\ \A t \in tasks :
            (OfMouse(t) /\ TookStep(t)) =>
               /\ UNCHANGED <<members, details, board, boardTTL>>
               /\ (t.pc = "m_get" /\ t.user \notin details[t.room]) =>
                     /\ ~\E x \in tasks' : x.msg = t.msg /\ x.kind = "bcast"
                     /\ UNCHANGED <<delivered, bus, sendlog>>
       /\ \A d \in delivered' :
            d.type = "participant-position" =>
               conns[d.conn].user \in d.mem \ {d.sender}]_vars

\* C22's case: a member has received the position of another participant.
C22_Witness ==
    \E d \in delivered : d.type = "participant-position" /\ conns[d.conn].user # d.sender

\* C23: no step of the close handler of a connection removes the registry
\* entry, the handler table or the status key of its user while a newer
\* connection of the same user id is open, on the same process (registry
\* entry, handler table, status key) or on another (status key).
C23_CloseSparesNewerConnection ==
    [][\A t \in tasks :
          (t.kind = "close" /\ TookStep(t)) =>
             \A c \in DOMAIN conns :
                (conns[c].open /\ conns[c].user = t.user /\ c > t.conn) =>
                   /\ status[t.user] => status'[t.user]
                   /\ conns[c].proc = t.proc =>
                         /\ clients'[t.proc][t.user] = clients[t.proc][t.user]
                         /\ handlers'[t.proc][t.user] = handlers[t.proc][t.user]]_vars

\* User u has joined room r and not left: it is a member with a presence
\* entry, an open connection of u has received room-joined, and no join,
\* leave or close handling of u is in progress.
JoinedConnected(u, r) ==
    /\ u \in members[r] /\ u \in details[r]
    /\ \E d \in delivered :
          /\ d.type = "room-joined" /\ d.room = r
          /\ conns[d.conn].open /\ conns[d.conn].user = u
    /\ ~\E t \in tasks : t.user = u /\ t.kind \in {"join-room", "leave-room", "close"}

\* C24: while a connected user has joined a room that has a board state and
\* not left, no step of a leave handling (leave-room or close) removes the
\* room's board state, its member set or that user's presence entry.
C24_NoCleanupWhileJoined ==
    [][\A t \in tasks :
          (t.kind \in {"leave-room", "close"} /\ TookStep(t)) =>
             \A r \in Rooms, u \in Users :
                (JoinedConnected(u, r) /\ board[r] # NoDoc) =>
                   /\ board'[r] # NoDoc
                   /\ u \in members'[r]
                   /\ u \in details'[r]]_vars

\* User u has an open connection whose registration has completed.
Connected(u) ==
    \E c \in DOMAIN conns : conns[c].user = u /\ conns[c].open /\ conns[c].registered

\* C25: no send to a user that has an open registered connection finds the
\* user offline and skips the message.
C25_ConnectedUserReachable ==
    [][\A t \in tasks :
          (t.pc = "snd_get" /\ TookStep(t) /\ Connected(t.to))
             => (Online(t.to) /\ \A x \in sendlog' \ sendlog : x.outcome # "offline")]_vars

\* C26: the handler table of a user holds at most one handler per inbound
\* type, and no accepted frame has a second handler invocation.
C26_OneHandlerPerType ==
    /\ \A p \in Procs, u \in Users : handlers[p][u] <= 1
    /\ \A t \in tasks : t.chain => t.copy = 1

\* The broadcast of the frame that task t handles has been written to a
\* socket of user u, or an envelope carrying it to u is on the bus.
Carried(t, u) ==
    \/ \E b \in delivered :
          b.msg = t.msg /\ b.type \in ElementOutTypes /\ conns[b.conn].user = u
    \/ \E e \in bus : e.msg = t.msg /\ e.type \in ElementOutTypes /\ e.to = u

\* C27: with no fault occurring, when updateBoardState writes element e for
\* a frame of one user, every other user whose open connection has received
\* room-joined for the room with a document that lacks e has been sent the
\* frame's broadcast.
C27_JoinerMissesNoElement ==
    [][\A t \in tasks :
          (t.pc = "up_set" /\ TookStep(t) /\ env.faults = {} /\ ~env.again) =>
             \A d \in delivered :
                (/\ d.type = "room-joined" /\ d.room = t.room
                 /\ conns[d.conn].open /\ conns[d.conn].user # t.user
                 /\ Head(t.els).id \notin Ids(d.doc.elements))
                   => Carried(t, conns[d.conn].user)]_vars

====
